---- MODULE Spec2Model ----
(***************************************************************************)
(* A model of the SizeCeph_Actual erasure-code plugin of Ceph              *)
(* (src/erasure-code/sizeceph_actual): the alignment arithmetic, the       *)
(* 6-shard availability gate, the minimum read set, the encode and decode  *)
(* orchestration around the external codec library, and the reference      *)
(* counted loading of that library.                                        *)
(*                                                                         *)
(* Buffers are sequences of bytes (naturals below 256).  A shard map       *)
(* (shard_id_map<T>) is a function whose domain is the set of its keys; a   *)
(* shard set (shard_id_set) is a set of integers.  Return codes are the    *)
(* strings "0", "-EINVAL", "-EIO", "-ENOENT", "-ENOTSUP"; a call that does *)
(* not return ends "throw" (a C++ exception leaves the method), "abort"    *)
(* (ceph_assert) or "crash" (undefined behaviour took the process down).   *)
(***************************************************************************)
EXTENDS Integers, Sequences, FiniteSets, TLC

VARIABLES
    dl_env,                         \* what dlopen/dlsym find on this host
    layout,                         \* byte layout of the codec library in use
    library_loaded,                 \* static bool library_loaded
    library_ref_count,              \* static int library_ref_count
    sizeceph_actual_handle,         \* static void* handle (TRUE: non-null)
    sizeceph_split_func,            \* the three function pointers
    sizeceph_restore_func,          \*   (TRUE: non-null)
    sizeceph_can_get_restore_func,
    inst,                           \* the plugin instances and their state
    store,                          \* the shards the caller keeps of its last encode
    call                            \* the last call: its arguments and results

vars == <<dl_env, layout, library_loaded, library_ref_count,
          sizeceph_actual_handle, sizeceph_split_func, sizeceph_restore_func,
          sizeceph_can_get_restore_func, inst, store, call>>

provider == <<library_loaded, library_ref_count, sizeceph_actual_handle,
              sizeceph_split_func, sizeceph_restore_func,
              sizeceph_can_get_restore_func>>

-----------------------------------------------------------------------------
(* The fixed configuration, ErasureCodeSizeCephActual.h lines 107-112.      *)

SIZECEPH_ACTUAL_K == 4

SIZECEPH_ACTUAL_M == 5

SIZECEPH_ACTUAL_N == 9

SIZECEPH_ACTUAL_MIN_OSDS == 6

SIZECEPH_ACTUAL_MAX_FAILURES == 3

SIZECEPH_ACTUAL_ALIGNMENT == 4

-----------------------------------------------------------------------------
(* Bounds of the model.                                                    *)

\* Longest stripe handed to encode, in bytes.
MaxStripeLen == 16

\* Largest chunk size a caller declares to decode, and the longest chunk of a
\* shard set that did not come from encode.
MaxChunkSize == 5

\* get_chunk_size is asked for the stripe widths 0..MaxWidth, for the
\* MaxWidth + 1 widths from 2^31 - 1 on and for the last MaxWidth + 1 widths
\* an unsigned int holds.
MaxWidth == 33

\* encode and decode take a reference on the library at every call and never
\* give it back; calls are enabled while the count is below this cap.
MaxRefCount == 3

-----------------------------------------------------------------------------
(* unsigned int.  TLC's integers are 32-bit signed, so an unsigned 32-bit   *)
(* value u is held as the signed integer with the same bit pattern: u      *)
(* itself below 2^31, u - 2^32 from 2^31 on.  The conversion int ->        *)
(* unsigned of C++ is then the identity, and the operators below are the   *)
(* arithmetic modulo 2^32 on these patterns.  On small values they are the *)
(* ordinary operations.                                                    *)

UINT_BITS == 32

Two30 == 2 ^ (UINT_BITS - 2)

INT_MAX == (Two30 - 1) * 2 + 1

INT_MIN == (-INT_MAX) - 1

\* a + b modulo 2^32.
U32Add(a, b) ==
    IF a >= 0 /\ b >= 0
    THEN IF a > INT_MAX - b THEN (((a - INT_MAX) + b) - INT_MAX) - 2 ELSE a + b
    ELSE IF a < 0 /\ b < 0
    THEN LET s == ((a + INT_MAX) + 1) + b
         IN  IF s < 0 THEN (s + INT_MAX) + 1 ELSE (s - INT_MAX) - 1
    ELSE a + b

\* a - b modulo 2^32.
U32Sub(a, b) == U32Add(a, IF b = INT_MIN THEN b ELSE -b)

\* a * n modulo 2^32, for a small natural n.
RECURSIVE U32Mul(_, _)
U32Mul(a, n) == IF n = 0 THEN 0 ELSE U32Add(a, U32Mul(a, n - 1))

\* 2^32 modulo d.
Two32Mod(d) == (((INT_MAX % d) + 1) * 2) % d

\* a % d on unsigned values, d a small positive number.
U32Mod(a, d) == IF a >= 0 THEN a % d ELSE ((a % d) + Two32Mod(d)) % d

\* a / d on unsigned values, 4 <= d.
U32Div(a, d) ==
    IF a >= 0 THEN a \div d
    ELSE 4 * (Two30 \div d) + ((a + 4 * (Two30 % d)) \div d)

\* a < b on unsigned values.
U32Less(a, b) == IF (a < 0) = (b < 0) THEN a < b ELSE b < 0

\* The values a buffer of the model can have as its length.
IsSmall(a) == a >= 0 /\ a <= 4 * SIZECEPH_ACTUAL_K * (MaxChunkSize + MaxStripeLen)

-----------------------------------------------------------------------------
(* Alignment Calculator.                                                   *)

\* include/intarith.h: n rounded up to the next multiple of d, in unsigned.
round_up_to(n, d) ==
    IF U32Mod(n, d) # 0 THEN U32Add(n, d - U32Mod(n, d)) ELSE n

\* A faulty variant, for comparison: the 32-byte alignment the file's
\* header comment speaks of.
get_alignment_32 == 8 * SIZECEPH_ACTUAL_ALIGNMENT

get_alignment == SIZECEPH_ACTUAL_ALIGNMENT

get_chunk_size(stripe_width) ==
    LET alignment     == SIZECEPH_ACTUAL_ALIGNMENT
        k_alignment   == SIZECEPH_ACTUAL_K * alignment
        padded_length == round_up_to(stripe_width, k_alignment)
        chunk_size    == U32Div(padded_length, SIZECEPH_ACTUAL_K)
    IN  chunk_size

-----------------------------------------------------------------------------
(* Codec Provider: loading and unloading the library.  dl_env says what    *)
(* dlopen and dlsym find: "ok" (the library and its three symbols),        *)
(* "no_lib" (none of the three paths opens) or "no_sym" (the library opens *)
(* but size_restore is not in it).  It is a property of the host and does  *)
(* not change while the process runs.                                      *)

DlEnvs == {"ok", "no_lib", "no_sym"}

\* The provider's six static fields as one record.
Provider(loaded, count, handle, split, restore, can) ==
    [loaded |-> loaded, count |-> count, handle |-> handle,
     split |-> split, restore |-> restore, can |-> can]

CurrentProvider ==
    Provider(library_loaded, library_ref_count, sizeceph_actual_handle,
             sizeceph_split_func, sizeceph_restore_func,
             sizeceph_can_get_restore_func)

\* load_sizeceph_actual_library() on provider p: the value returned and the
\* provider it leaves.
load_sizeceph_actual_library(p) ==
    IF p.loaded
    THEN [ret |-> TRUE, p |-> [p EXCEPT !.count = p.count + 1]]
    ELSE IF dl_env = "no_lib"
    THEN [ret |-> FALSE, p |-> [p EXCEPT !.handle = FALSE]]
    ELSE IF dl_env = "no_sym"
    THEN [ret |-> FALSE,
          p |-> [p EXCEPT !.handle = FALSE, !.split = TRUE,
                          !.restore = FALSE, !.can = TRUE]]
    ELSE [ret |-> TRUE, p |-> Provider(TRUE, 1, TRUE, TRUE, TRUE, TRUE)]

unload_sizeceph_actual_library_unsafe(p) ==
    IF ~p.loaded THEN p
    ELSE IF p.count - 1 = 0
    THEN Provider(FALSE, 0, FALSE, FALSE, FALSE, FALSE)
    ELSE [p EXCEPT !.count = p.count - 1]

\* The locked entry point: the mutex makes the body atomic.
unload_sizeceph_actual_library(p) == unload_sizeceph_actual_library_unsafe(p)

SetProvider(p) ==
    /\ library_loaded' = p.loaded
    /\ library_ref_count' = p.count
    /\ sizeceph_actual_handle' = p.handle
    /\ sizeceph_split_func' = p.split
    /\ sizeceph_restore_func' = p.restore
    /\ sizeceph_can_get_restore_func' = p.can

-----------------------------------------------------------------------------
(* Shard maps.                                                             *)

EmptyMap == [x \in {} |-> 0]

MapPut(m, k, v) == [x \in DOMAIN m \cup {k} |-> IF x = k THEN v ELSE m[x]]

Restrict(m, S) == [x \in S |-> m[x]]

Zeros(n) == [j \in 1..n |-> 0]

\* The smallest element of a non-empty set of integers: *begin() of an
\* ordered container.
Min(S) == CHOOSE x \in S : \A y \in S : x <= y

\* The n smallest elements of S (all of S when it has fewer).
RECURSIVE FirstN(_, _)
FirstN(S, n) ==
    IF n = 0 \/ S = {} THEN {}
    ELSE {Min(S)} \cup FirstN(S \ {Min(S)}, n - 1)

-----------------------------------------------------------------------------
(* Instances: construction, init, destruction.                             *)

Instances == {"a"}

ProfileKeys == {"k", "m"}

ProfileValues == {"4", "5", "x"}

\* The profiles init is given: any subset of the keys k and m, each with a
\* value that is "4", "5" or not a number.
Profiles ==
    UNION {[D -> ProfileValues] : D \in SUBSET ProfileKeys}

\* std::stoi on the values above; "x" makes it throw std::invalid_argument.
StoiThrows(s) == s \notin {"4", "5"}

Stoi(s) == IF s = "4" THEN 4 ELSE 5

\* No call is in progress: the caller has taken the result of the last one.
NoCall == [op |-> "none"]

Idle == call = NoCall

NoInstance == [st |-> "none", profile |-> EmptyMap]

\* ErasureCodeSizeCephActual::init: the return code and the provider left.
init(profile, p) ==
    IF "k" \notin DOMAIN profile \/ "m" \notin DOMAIN profile
    THEN [ret |-> "-EINVAL", p |-> p]
    ELSE IF StoiThrows(profile["k"]) \/ StoiThrows(profile["m"])
    THEN [ret |-> "throw", p |-> p]
    ELSE IF Stoi(profile["k"]) # SIZECEPH_ACTUAL_K
            \/ Stoi(profile["m"]) # SIZECEPH_ACTUAL_M
    THEN [ret |-> "-EINVAL", p |-> p]
    ELSE LET l == load_sizeceph_actual_library(p)
         IN  IF ~l.ret THEN [ret |-> "-ENOENT", p |-> l.p]
             ELSE [ret |-> "0", p |-> l.p]

Construct(i) ==
    /\ Idle
    /\ inst[i].st = "none"
    /\ inst' = [inst EXCEPT ![i] = [st |-> "new", profile |-> EmptyMap]]
    /\ call' = [op |-> "construct", self |-> i]
    /\ UNCHANGED <<dl_env, layout, provider, store>>

InitInstance(i) ==
    /\ Idle
    /\ inst[i].st = "new"
    /\ library_ref_count < MaxRefCount
    /\ \E profile \in Profiles :
          LET r == init(profile, CurrentProvider)
          IN  /\ inst' = [inst EXCEPT ![i] =
                    [st |-> IF r.ret = "0" THEN "ready" ELSE "new",
                     profile |-> profile]]
              /\ SetProvider(r.p)
              /\ call' = [op |-> "init", self |-> i, profile |-> profile,
                          ret |-> r.ret, provider |-> CurrentProvider]
    /\ UNCHANGED <<dl_env, layout, store>>

\* ~ErasureCodeSizeCephActual.
Destroy(i) ==
    /\ Idle
    /\ inst[i].st # "none"
    /\ inst' = [inst EXCEPT ![i] = NoInstance]
    /\ SetProvider(unload_sizeceph_actual_library(CurrentProvider))
    /\ call' = [op |-> "destroy", self |-> i]
    /\ UNCHANGED <<dl_env, layout, store>>

\* ErasureCodePluginSizeCephActual::factory: the return code, the provider
\* left and whether an instance was handed out.  An instance whose init
\* fails is deleted, which runs its destructor.
factory(profile, p) ==
    IF "k" \in DOMAIN profile /\ profile["k"] # "4"
    THEN [ret |-> "-EINVAL", p |-> p, made |-> FALSE]
    ELSE IF "m" \in DOMAIN profile /\ profile["m"] # "5"
    THEN [ret |-> "-EINVAL", p |-> p, made |-> FALSE]
    ELSE LET r == init(profile, p)
         IN  IF r.ret = "throw"
             THEN [ret |-> "throw", p |-> r.p, made |-> FALSE]
             ELSE IF r.ret # "0"
             THEN [ret |-> r.ret, p |-> unload_sizeceph_actual_library(r.p),
                   made |-> FALSE]
             ELSE [ret |-> "0", p |-> r.p, made |-> TRUE]

Factory(i) ==
    /\ Idle
    /\ inst[i].st = "none"
    /\ library_ref_count < MaxRefCount
    /\ \E profile \in Profiles :
          LET r == factory(profile, CurrentProvider)
          IN  /\ inst' = [inst EXCEPT ![i] =
                    IF r.made THEN [st |-> "ready", profile |-> profile]
                    ELSE NoInstance]
              /\ SetProvider(r.p)
              /\ call' = [op |-> "factory", self |-> i, profile |-> profile,
                          ret |-> r.ret, provider |-> CurrentProvider]
    /\ UNCHANGED <<dl_env, layout, store>>

\* An instance the caller may use: one whose init returned 0 (the plugin
\* factory deletes an instance whose init failed), with no call in progress.
Ready(i) == Idle /\ inst[i].st = "ready"

-----------------------------------------------------------------------------
(* The codec library (external; modelled from its interface).  split       *)
(* writes in_len / K bytes into each of the N output buffers; restore      *)
(* reads out_len / K bytes of every chunk it is given and rebuilds the     *)
(* out_len bytes that were split.  The library is opaque, so the model     *)
(* does not fix how it lays the input out over the chunks: layout is       *)
(* "block" (data chunk k holds the k-th quarter of the input) or "word"    *)
(* (the library takes the input four bytes at a time and gives one byte of *)
(* each word to each chunk).  Both restore what was split.  Data bytes of  *)
(* the model are below 4; a byte of a coding chunk packs the four data     *)
(* bytes of its column, which makes every coding chunk sufficient to       *)
(* rebuild a missing data chunk and maps zero data to zero.                *)

Layouts == {"block", "word"}

DataIds == 0 .. (SIZECEPH_ACTUAL_K - 1)

CodingIds == SIZECEPH_ACTUAL_K .. (SIZECEPH_ACTUAL_N - 1)

AllIds == 0 .. (SIZECEPH_ACTUAL_N - 1)

\* Position (from 1) in the contiguous buffer of byte j of data chunk k, when
\* every chunk holds q bytes.
BytePos(k, j, q) ==
    IF layout = "block" THEN k * q + j + 1 ELSE SIZECEPH_ACTUAL_K * j + k + 1

RECURSIVE Pack(_, _, _, _)
Pack(buf, j, q, k) ==
    IF k = SIZECEPH_ACTUAL_K THEN 0
    ELSE buf[BytePos(k, j, q)] + 4 * Pack(buf, j, q, k + 1)

Unpack(byte, k) == (byte \div (4 ^ k)) % 4

\* size_split(pp_dst, p_src, len): the bytes written to each output buffer.
size_split(src, len) ==
    LET q == len \div SIZECEPH_ACTUAL_K
    IN  [i \in AllIds |->
            [j1 \in 1..q |->
                IF i \in DataIds THEN src[BytePos(i, j1 - 1, q)]
                ELSE Pack(src, j1 - 1, q, 0)]]

\* size_can_get_restore_fn(pp_src) of a working library: whether the chunks
\* present determine the data.
CanRebuild(present) ==
    DataIds \subseteq present \/ present \cap CodingIds # {}

\* Byte j1 (from 1) of chunk i as restore reads it: a read past the end of
\* the chunk's buffer yields the byte beyond.
ReadByte(pp_src, i, j1, beyond) ==
    IF j1 <= Len(pp_src[i]) THEN pp_src[i][j1] ELSE beyond

\* The data chunk and the byte of it (from 1) that position pos of the
\* contiguous buffer holds: the inverse of BytePos.
ChunkAt(pos, q) ==
    IF layout = "block" THEN (pos - 1) \div q
    ELSE (pos - 1) % SIZECEPH_ACTUAL_K

IndexAt(pos, q) ==
    IF layout = "block" THEN ((pos - 1) % q) + 1
    ELSE ((pos - 1) \div SIZECEPH_ACTUAL_K) + 1

\* size_restore(p_dst, pp_src, len): the len bytes rebuilt from the chunks
\* present (the domain of pp_src).
size_restore(pp_src, len, beyond) ==
    LET q       == len \div SIZECEPH_ACTUAL_K
        present == DOMAIN pp_src
        data(k, j1) ==
            IF k \in present THEN ReadByte(pp_src, k, j1, beyond)
            ELSE Unpack(ReadByte(pp_src, Min(present \cap CodingIds), j1,
                                 beyond), k)
    IN  [pos \in 1..len |-> data(ChunkAt(pos, q), IndexAt(pos, q))]

\* restore reads len / K bytes of every chunk present: a shorter chunk is a
\* read outside its buffer.
RestoreReadsOutside(pp_src, len) ==
    \E i \in DOMAIN pp_src :
        U32Less(Len(pp_src[i]), U32Div(len, SIZECEPH_ACTUAL_K))

-----------------------------------------------------------------------------
(* Encode Orchestrator.                                                    *)

\* The bufferlist a map holds for a shard; operator[] makes an empty one.
At(m, id) == IF id \in DOMAIN m THEN m[id] ELSE << >>

\* A faulty variant, for comparison: the range check of the identifiers
\* left out.
encode_request_counted(want_to_encode) ==
    Cardinality(want_to_encode) = SIZECEPH_ACTUAL_N

\* The request is for all N shards, each an identifier in [0, N).
encode_request_valid(want_to_encode) ==
    /\ Cardinality(want_to_encode) = SIZECEPH_ACTUAL_N
    /\ \A id \in want_to_encode : ~(id < 0 \/ id >= SIZECEPH_ACTUAL_N)

\* A faulty variant, for comparison: no short cut for the empty input.
encode_input_never_empty(in) == FALSE

\* The empty input, for which encode skips the codec.
encode_input_empty(in) == Len(in) = 0

\* The input length the alignment check lets through.
encode_input_aligned(in) == Len(in) % get_alignment = 0

\* encode(want_to_encode, in, encoded) with the provider in state p: the
\* return code, the map left in *encoded, the provider left and the calls
\* made to the codec library.
encode(want_to_encode, in, encoded, p) ==
    LET l == load_sizeceph_actual_library(p)
        input_length == Len(in)
        chunk_size   == get_chunk_size(input_length)
        \* the buffers split writes to, zeroed, are the ones in the map only
        \* if the map held nothing for the shard before
        mismatch == \E id \in want_to_encode : Len(At(encoded, id)) > 0
        written  == size_split(in, input_length)
        result   == [id \in DOMAIN encoded \cup want_to_encode |->
                       IF id \in want_to_encode
                       THEN written[id]
                            \o Zeros(chunk_size - Len(written[id]))
                       ELSE encoded[id]]
    IN  IF ~l.ret
        THEN [ret |-> "-ENOENT", encoded |-> encoded, p |-> l.p,
              calls |-> << >>]
        ELSE IF ~encode_request_valid(want_to_encode)
        THEN [ret |-> "-EINVAL", encoded |-> encoded, p |-> l.p,
              calls |-> << >>]
        ELSE IF encode_input_empty(in)
        THEN [ret |-> "0",
              encoded |-> [id \in DOMAIN encoded \cup want_to_encode |->
                              IF id \in want_to_encode THEN << >>
                              ELSE encoded[id]],
              p |-> l.p, calls |-> << >>]
        ELSE IF ~encode_input_aligned(in)
        THEN [ret |-> "-EINVAL", encoded |-> encoded, p |-> l.p,
              calls |-> << >>]
        ELSE IF mismatch
        THEN [ret |-> "abort", encoded |-> encoded, p |-> l.p,
              calls |-> << >>]
        ELSE [ret |-> "0", encoded |-> result, p |-> l.p,
              calls |-> <<[fn |-> "split", len |-> input_length]>>]

\* The stripes handed to encode: every length up to the bound, the byte at
\* position i being 1 + (i mod 3), so that no two neighbours are equal and
\* none is zero.
StripeOf(length) == [i \in 1..length |-> 1 + (i % 3)]

Stripes == {StripeOf(length) : length \in 0..MaxStripeLen}

\* The shard sets asked of encode: the full set, strict subsets of it, and
\* sets holding an identifier that is no shard.
WantToEncodeSets ==
    {AllIds, AllIds \ {8}, AllIds \ {0}, DataIds, {},
     (AllIds \ {8}) \cup {SIZECEPH_ACTUAL_N}, AllIds \cup {SIZECEPH_ACTUAL_N}}

\* What *encoded holds at the call.  The OSD hands encode a map with no
\* buffers in it: no entry, or entries whose bufferlists are empty.
EncodedBefore == {EmptyMap, [id \in {0, 4} |-> << >>]}

NoStore == [stripe |-> << >>, shards |-> EmptyMap]

Encode(i) ==
    /\ Ready(i)
    /\ library_ref_count < MaxRefCount
    /\ \E want_to_encode \in WantToEncodeSets, in \in Stripes,
          encoded \in EncodedBefore :
          LET r == encode(want_to_encode, in, encoded, CurrentProvider)
          IN  /\ SetProvider(r.p)
              /\ call' = [op |-> "encode", self |-> i,
                          want |-> want_to_encode, in |-> in,
                          before |-> encoded, encoded |-> r.encoded,
                          ret |-> r.ret, calls |-> r.calls]
              /\ store' = IF r.ret = "0"
                          THEN [stripe |-> in, shards |-> r.encoded]
                          ELSE store
    /\ UNCHANGED <<dl_env, layout, inst>>

-----------------------------------------------------------------------------
(* Availability Gate.                                                      *)

validate_failure_pattern(available) ==
    Cardinality(available) >= SIZECEPH_ACTUAL_MIN_OSDS

\* A faulty variant, for comparison: the gate with the secondary check
\* alone (K chunks are enough).
is_safe_to_decode_k(available, want_to_read) ==
    Cardinality(available) >= SIZECEPH_ACTUAL_K

is_safe_to_decode(available, want_to_read) ==
    IF Cardinality(available) < SIZECEPH_ACTUAL_MIN_OSDS THEN FALSE
    ELSE IF Cardinality(available) < SIZECEPH_ACTUAL_K THEN FALSE
    ELSE TRUE

-----------------------------------------------------------------------------
(* Decode Orchestrator.                                                    *)

\* What the codec library does in a call.  "works": can_restore and restore
\* answer as a working library does.  "refuses": can_restore returns false.
\* "fails": restore returns a nonzero status.
CodecBehaviours == {"works", "refuses", "fails"}

\* What a read outside a chunk's buffer does in restore: the process dies,
\* or the read yields whatever lies beyond (the byte 3 in the model).
OutsideReads == {"crash", "garbage"}

\* bufferlist::substr_of(other, off, len) of include/buffer.h: throws
\* end_of_buffer when off + len, computed in unsigned, exceeds the length;
\* a range that passes this test only because the sum wrapped runs off the
\* end of the list, which ceph_assert stops.
substr_of(other, off, len) ==
    IF U32Less(Len(other), U32Add(off, len))
    THEN [ret |-> "throw", bl |-> << >>]
    ELSE IF off < 0 \/ len < 0 \/ off + len > Len(other)
    THEN [ret |-> "abort", bl |-> << >>]
    ELSE [ret |-> "0", bl |-> SubSeq(other, off + 1, off + len)]

\* A faulty variant, for comparison: the `continue` of the parity branch
\* left out, so that the empty chunk_bl is stored for the shard.
store_parity_chunk(decoded, shard_id) == MapPut(decoded, shard_id, << >>)

\* A requested parity chunk (4-8) is not returned: the map is left as it is.
skip_parity_chunk(decoded, shard_id) == decoded

\* The loop over want_to_read (ascending, as the set iterates), from the
\* identifiers still to do.
RECURSIVE reconcile(_, _, _, _)
reconcile(ids, decoded, restored_data, original_data_size) ==
    IF ids = {} THEN [ret |-> "0", decoded |-> decoded]
    ELSE
      LET shard_id == Min(ids)
          original_data_per_chunk == get_chunk_size(original_data_size)
          start_offset == U32Mul(original_data_per_chunk, shard_id)
          length ==
              IF shard_id = SIZECEPH_ACTUAL_K - 1
              THEN U32Sub(original_data_size, start_offset)
              ELSE original_data_per_chunk
          data_portion == substr_of(restored_data, start_offset, length)
      IN  IF shard_id < 0 \/ shard_id >= SIZECEPH_ACTUAL_N
          THEN [ret |-> "-EINVAL", decoded |-> decoded]
          ELSE IF shard_id < SIZECEPH_ACTUAL_K
          THEN IF data_portion.ret # "0"
               THEN [ret |-> data_portion.ret, decoded |-> decoded]
               ELSE reconcile(ids \ {shard_id},
                              MapPut(decoded, shard_id, data_portion.bl),
                              restored_data, original_data_size)
          ELSE reconcile(ids \ {shard_id},
                         skip_parity_chunk(decoded, shard_id),
                         restored_data, original_data_size)

\* A faulty variant, for comparison: restore is called whatever
\* can_restore answered.
codec_calls_regardless(restorable, can, res) == <<can, res>>

\* The calls decode makes to the codec library: can_restore once, and
\* restore once when can_restore answered true.
codec_calls(restorable, can, res) ==
    IF restorable THEN <<can, res>> ELSE <<can>>

\* decode(want_to_read, chunks, decoded, chunk_size) with the provider in
\* state p, the codec library behaving as `codec` and a read outside a
\* buffer ending as `outside`: the return code, the map left in *decoded,
\* the provider left, the calls made to the codec library, the effective
\* chunk size and the buffer restore filled.
decode(want_to_read, chunks, decoded, chunk_size, p, codec, outside) ==
    LET available == DOMAIN chunks
        l == load_sizeceph_actual_library(p)
        effective_chunk_size ==
            IF chunk_size = 0 /\ chunks # EmptyMap
            THEN Len(chunks[Min(DOMAIN chunks)])
            ELSE chunk_size
        input_chunks ==
            Restrict(chunks, {id \in DOMAIN chunks :
                                 id >= 0 /\ id < SIZECEPH_ACTUAL_N})
        can == [fn |-> "can_restore", len |-> 0]
        original_data_size ==
            U32Mul(effective_chunk_size, SIZECEPH_ACTUAL_K)
        res == [fn |-> "restore", len |-> original_data_size]
        overrun == RestoreReadsOutside(input_chunks, original_data_size)
        restored_data == size_restore(input_chunks, original_data_size, 3)
        out(ret, map, prov, calls, buf) ==
            [ret |-> ret, decoded |-> map, p |-> prov, calls |-> calls,
             size |-> effective_chunk_size, restored |-> buf]
    IN  IF ~is_safe_to_decode(available, want_to_read)
        THEN [ret |-> "-EIO", decoded |-> decoded, p |-> p, calls |-> << >>,
              size |-> 0, restored |-> << >>]
        ELSE IF ~l.ret
        THEN out("-ENOENT", decoded, l.p, << >>, << >>)
        ELSE IF Cardinality(available) < SIZECEPH_ACTUAL_MIN_OSDS
        THEN out("-ENOENT", decoded, l.p, << >>, << >>)
        ELSE IF effective_chunk_size = 0
        THEN out("-EINVAL", decoded, l.p, << >>, << >>)
        ELSE IF codec = "refuses" \/ ~CanRebuild(DOMAIN input_chunks)
        THEN out("-ENOTSUP", decoded, l.p, codec_calls(FALSE, can, res),
                 << >>)
        ELSE IF codec = "fails"
        THEN out("-EIO", decoded, l.p, codec_calls(TRUE, can, res), << >>)
        ELSE IF overrun /\ (outside = "crash" \/ ~IsSmall(original_data_size))
        THEN out("crash", decoded, l.p, codec_calls(TRUE, can, res), << >>)
        ELSE LET r == reconcile(want_to_read, decoded, restored_data,
                                original_data_size)
             IN  out(r.ret, r.decoded, l.p, codec_calls(TRUE, can, res),
                     restored_data)

\* A record of a decode call.
DecodeCall(i, want_to_read, chunks, chunk_size, decoded, codec, r) ==
    [op |-> "decode", self |-> i, want |-> want_to_read, chunks |-> chunks,
     chunk_size |-> chunk_size, before |-> decoded, codec |-> codec,
     decoded |-> r.decoded, ret |-> r.ret, calls |-> r.calls,
     size |-> r.size, restored |-> r.restored]

\* The shard sets asked of decode.
WantToReadSets ==
    {{}, {0}, {1}, {3}, DataIds, {4}, {0, 4}, {2, 8}, AllIds,
     {SIZECEPH_ACTUAL_N}, {0, SIZECEPH_ACTUAL_N}, {5, SIZECEPH_ACTUAL_N}}

\* What *decoded holds at the call: nothing, or chunks of an earlier call.
DecodedBefore == {EmptyMap, [id \in {0, 4} |-> <<7>>]}

\* The shards of the store a caller reads back: the four data shards with
\* any two coding shards, and sets with data shards missing, too few shards
\* or all of them.
StoredSets ==
    {DataIds \cup {a, b} : a \in CodingIds, b \in CodingIds}
    \cup {AllIds, CodingIds \cup {0}, AllIds \ {0, 1, 2}, {1, 2, 4, 5, 6, 8},
          DataIds \cup {4}, CodingIds, {}}

DecodeStored(i) ==
    /\ Ready(i)
    /\ library_ref_count < MaxRefCount
    /\ store # NoStore
    /\ \E want_to_read \in WantToReadSets, have \in StoredSets,
          declared \in BOOLEAN, decoded \in DecodedBefore,
          codec \in CodecBehaviours :
          LET chunks == Restrict(store.shards, have)
              chunk_size == IF declared
                            THEN get_chunk_size(Len(store.stripe)) ELSE 0
              r == decode(want_to_read, chunks, decoded, chunk_size,
                          CurrentProvider, codec, "crash")
          IN  /\ SetProvider(r.p)
              /\ call' = DecodeCall(i, want_to_read, chunks, chunk_size,
                                    decoded, codec, r)
    /\ UNCHANGED <<dl_env, layout, inst, store>>

\* Shards that did not come from this instance's encode: the chunks, each
\* len bytes long, that the codec library splits a stripe of K * len bytes
\* into, for the shards of `have`; an identifier that is no shard carries
\* zeros.
ForeignChunks(have, len) ==
    LET made == size_split(StripeOf(SIZECEPH_ACTUAL_K * len),
                           SIZECEPH_ACTUAL_K * len)
    IN  [id \in have |-> IF id \in AllIds THEN made[id] ELSE Zeros(len)]

ForeignSets ==
    {{}, DataIds \cup {4}, DataIds \cup {4, 5}, DataIds \cup {7, 8},
     {0, 1, 2, 4, 5, 6}, {1, 2, 3, 5, 6, 7}, CodingIds \cup {3}, AllIds,
     CodingIds \cup {SIZECEPH_ACTUAL_N}, DataIds \cup {4, SIZECEPH_ACTUAL_N},
     AllIds \cup {SIZECEPH_ACTUAL_N}}

\* The chunk sizes declared for chunks of len bytes: none (0, to be taken
\* from a chunk), the length, one less and one more.
DeclaredSizes(len) ==
    {0, len} \cup ({len - 1, len + 1} \cap (1..MaxChunkSize))

\* decode on shards that did not come from encode: any chunk length, with
\* a declared chunk size that matches it or not.
DecodeForeign(i) ==
    /\ Ready(i)
    /\ library_ref_count < MaxRefCount
    /\ \E want_to_read \in WantToReadSets, have \in ForeignSets,
          len \in 0..MaxChunkSize, decoded \in DecodedBefore,
          codec \in CodecBehaviours :
          \E chunk_size \in DeclaredSizes(len) :
          \E outside \in IF chunk_size > len THEN OutsideReads
                         ELSE {"crash"} :
          LET chunks == ForeignChunks(have, len)
              r == decode(want_to_read, chunks, decoded, chunk_size,
                          CurrentProvider, codec, outside)
          IN  /\ SetProvider(r.p)
              /\ call' = DecodeCall(i, want_to_read, chunks, chunk_size,
                                    decoded, codec, r)
    /\ UNCHANGED <<dl_env, layout, inst, store>>

\* decode on every set of identifiers of 0..N as the keys of the chunk map
\* (N itself is no shard), whatever the request and the declared size.
DecodeAnySet(i) ==
    /\ Ready(i)
    /\ library_ref_count < MaxRefCount
    /\ \E have \in SUBSET (0..SIZECEPH_ACTUAL_N),
          want_to_read \in {{}, DataIds, {0, 4}},
          chunk_size \in {0, SIZECEPH_ACTUAL_ALIGNMENT},
          codec \in CodecBehaviours :
          LET chunks == ForeignChunks(have, SIZECEPH_ACTUAL_ALIGNMENT)
              r == decode(want_to_read, chunks, EmptyMap, chunk_size,
                          CurrentProvider, codec, "crash")
          IN  /\ SetProvider(r.p)
              /\ call' = DecodeCall(i, want_to_read, chunks, chunk_size,
                                    EmptyMap, codec, r)
    /\ UNCHANGED <<dl_env, layout, inst, store>>

\* Chunk sizes of the int range that are no length of a chunk of the
\* model: the negative ones, and those whose product with K needs more than
\* 32 bits.
OddSizes ==
    {-c : c \in 1..MaxChunkSize}
    \cup {INT_MIN, INT_MAX, Two30, Two30 + 1, Two30 + Two30 \div 2}

\* decode with such a chunk size declared, on six or nine chunks that are
\* empty or 4 bytes long.
DecodeDeclared(i) ==
    /\ Ready(i)
    /\ library_ref_count < MaxRefCount
    /\ \E chunk_size \in OddSizes, want_to_read \in {{0}, DataIds, {1, 4}},
          have \in {DataIds \cup {4, 5}, AllIds},
          len \in {0, SIZECEPH_ACTUAL_ALIGNMENT},
          codec \in CodecBehaviours, outside \in OutsideReads :
          LET chunks == ForeignChunks(have, len)
              r == decode(want_to_read, chunks, EmptyMap, chunk_size,
                          CurrentProvider, codec, outside)
          IN  /\ SetProvider(r.p)
              /\ call' = DecodeCall(i, want_to_read, chunks, chunk_size,
                                    EmptyMap, codec, r)
    /\ UNCHANGED <<dl_env, layout, inst, store>>

-----------------------------------------------------------------------------
(* The concatenation helper.                                               *)

\* The blocks of the requested shards, in the order the std::set iterates.
RECURSIVE concat_shards(_, _, _)
concat_shards(ids, decoded_map, chunk_size) ==
    IF ids = {} THEN << >>
    ELSE LET shard_id == Min(ids)
         IN  (IF shard_id \in DOMAIN decoded_map THEN decoded_map[shard_id]
              ELSE Zeros(chunk_size))
             \o concat_shards(ids \ {shard_id}, decoded_map, chunk_size)

\* The tail of decode_concat, once decode has returned r: on success the
\* bufferlist is cleared and the blocks are appended, otherwise it is left
\* alone and decode's value is returned.
concat_decoded(want_to_read, out, chunk_size, r) ==
    [ret |-> r.ret,
     out |-> IF r.ret = "0"
             THEN concat_shards(want_to_read, r.decoded, chunk_size)
             ELSE out,
     p |-> r.p, calls |-> r.calls, decoded |-> r.decoded,
     size |-> chunk_size]

\* The chunk size decode_concat hands to decode: the first chunk's length.
first_chunk_length(chunks) ==
    IF chunks = EmptyMap THEN 0 ELSE Len(chunks[Min(DOMAIN chunks)])

\* decode_concat(want_to_read, chunks, decoded): has_out says whether the
\* pointer decoded is non-null, out is the bufferlist it points to.
decode_concat(want_to_read, chunks, has_out, out, p, codec, outside) ==
    IF ~has_out
    THEN [ret |-> "-EINVAL", out |-> out, p |-> p, calls |-> << >>,
          decoded |-> EmptyMap, size |-> 0]
    ELSE concat_decoded(want_to_read, out, first_chunk_length(chunks),
                        decode(want_to_read, chunks, EmptyMap,
                               first_chunk_length(chunks), p, codec,
                               outside))

\* decode_concat(chunks, decoded): all the data chunks.
decode_concat_data(chunks, has_out, out, p, codec, outside) ==
    decode_concat(DataIds, chunks, has_out, out, p, codec, outside)

\* The maps handed to decode_concat are std::map<int, bufferlist> copied
\* into a shard_id_map of N entries: their keys are shards.
ConcatSets == {have \in ForeignSets : have \subseteq AllIds}

\* A record of a decode_concat call.
ConcatCall(i, want_to_read, chunks, has_out, codec, r) ==
    [op |-> "decode_concat", self |-> i, want |-> want_to_read,
     chunks |-> chunks, has_out |-> has_out, codec |-> codec,
     out |-> r.out, ret |-> r.ret, calls |-> r.calls,
     decoded |-> r.decoded, size |-> r.size]

\* The call's effect on the process: the provider as decode left it.
ConcatDone(i, want_to_read, chunks, has_out, codec, r) ==
    /\ SetProvider(r.p)
    /\ call' = ConcatCall(i, want_to_read, chunks, has_out, codec, r)

\* Either overload of decode_concat, on chunks of any length.
DecodeConcat(i) ==
    /\ Ready(i)
    /\ library_ref_count < MaxRefCount
    /\ \E have \in ConcatSets, len \in 0..MaxChunkSize,
          codec \in CodecBehaviours, has_out \in BOOLEAN :
          \/ \E want_to_read \in WantToReadSets :
                ConcatDone(i, want_to_read, ForeignChunks(have, len),
                           has_out, codec,
                           decode_concat(want_to_read,
                                         ForeignChunks(have, len), has_out,
                                         <<9>>, CurrentProvider, codec,
                                         "crash"))
          \/ ConcatDone(i, DataIds, ForeignChunks(have, len), has_out,
                        codec,
                        decode_concat_data(ForeignChunks(have, len),
                                           has_out, <<9>>, CurrentProvider,
                                           codec, "crash"))
    /\ UNCHANGED <<dl_env, layout, inst, store>>

-----------------------------------------------------------------------------
(* The operations that touch neither the provider nor a chunk.             *)

\* A faulty variant, for comparison: the selector without minimum_set.clear().
minimum_to_decode_kept(want_to_read, available, minimum_set) ==
    IF Cardinality(available) < SIZECEPH_ACTUAL_MIN_OSDS
    THEN [ret |-> "-EIO", minimum_set |-> minimum_set]
    ELSE [ret |-> "0",
          minimum_set |-> minimum_set
                          \cup FirstN(available, SIZECEPH_ACTUAL_MIN_OSDS)]

\* minimum_to_decode(want_to_read, available, minimum_set, nullptr).
minimum_to_decode(want_to_read, available, minimum_set) ==
    IF Cardinality(available) < SIZECEPH_ACTUAL_MIN_OSDS
    THEN [ret |-> "-EIO", minimum_set |-> minimum_set]
    ELSE [ret |-> "0",
          minimum_set |-> FirstN(available, SIZECEPH_ACTUAL_MIN_OSDS)]

\* minimum_to_decode_with_cost(want_to_read, available, minimum): available
\* maps each shard to its cost.
minimum_to_decode_with_cost(want_to_read, available, minimum) ==
    LET avail_set == DOMAIN available
    IN  minimum_to_decode(want_to_read, avail_set, minimum)

\* An instance that exists, with no call in progress.
Live(i) == Idle /\ inst[i].st # "none"

\* The stripe widths asked of get_chunk_size.
Widths ==
    {U32Add(b, d) : b \in {0, INT_MAX, U32Sub(0, MaxWidth + 1)},
                    d \in 0..MaxWidth}

GetChunkSize(i) ==
    /\ Live(i)
    /\ \E stripe_width \in Widths :
          call' = [op |-> "get_chunk_size", self |-> i,
                   stripe_width |-> stripe_width,
                   ret |-> get_chunk_size(stripe_width),
                   provider |-> CurrentProvider]
    /\ UNCHANGED <<dl_env, layout, provider, inst, store>>

\* What minimum_set holds at the call.
MinimumBefore == {{}, {7, 8}}

MinimumToDecode(i) ==
    /\ Live(i)
    /\ \E want_to_read \in {{}, {0}, DataIds, {8}},
          available \in SUBSET AllIds, minimum_set \in MinimumBefore :
          LET r == minimum_to_decode(want_to_read, available, minimum_set)
          IN  call' = [op |-> "minimum_to_decode", self |-> i,
                       want |-> want_to_read, available |-> available,
                       before |-> minimum_set, ret |-> r.ret,
                       minimum_set |-> r.minimum_set]
    /\ UNCHANGED <<dl_env, layout, provider, inst, store>>

\* The costs of the shards of a set: all the same, or falling with the
\* identifier.
CostMaps(have) ==
    {[id \in have |-> 1], [id \in have |-> SIZECEPH_ACTUAL_N - id]}

MinimumToDecodeWithCost(i) ==
    /\ Live(i)
    /\ \E want_to_read \in {{0}, DataIds}, have \in SUBSET AllIds,
          minimum \in MinimumBefore :
          \E available \in CostMaps(have) :
          LET r == minimum_to_decode_with_cost(want_to_read, available,
                                               minimum)
          IN  call' = [op |-> "minimum_to_decode_with_cost", self |-> i,
                       want |-> want_to_read, available |-> have,
                       costs |-> available, before |-> minimum,
                       ret |-> r.ret, minimum_set |-> r.minimum_set]
    /\ UNCHANGED <<dl_env, layout, provider, inst, store>>

-----------------------------------------------------------------------------
(* Sub-chunk and delta operations.  Each yields the value returned ("void" *)
(* for a method that returns nothing) and what its output argument holds   *)
(* afterwards; none of them calls the codec library.                       *)

\* encode_chunks(want_to_encode, encoded), the deprecated overload.
encode_chunks_legacy(want_to_encode, encoded) ==
    [ret |-> "-ENOTSUP", out |-> encoded]

\* encode_chunks(in, out).
encode_chunks(in, out) == [ret |-> "-ENOTSUP", out |-> out]

\* decode_chunks(want_to_read, in, out).
decode_chunks(want_to_read, in, out) == [ret |-> "-ENOTSUP", out |-> out]

\* decode_chunks(want_to_read, chunks, decoded), the deprecated overload.
decode_chunks_legacy(want_to_read, chunks, decoded) ==
    [ret |-> "-ENOTSUP", out |-> decoded]

\* encode_delta(old_data, new_data, delta_maybe_in_place): an empty body.
encode_delta(old_data, new_data, delta_maybe_in_place) ==
    [ret |-> "void", out |-> delta_maybe_in_place]

\* apply_delta(in, out): an empty body.
apply_delta(in, out) == [ret |-> "void", out |-> out]

UnsupportedOps ==
    {"encode_chunks_legacy", "encode_chunks", "decode_chunks",
     "decode_chunks_legacy", "encode_delta", "apply_delta"}

\* The buffers and the maps of buffers these operations are given.
SomeBuffers == {<< >>, <<1, 2, 3, 1>>}

SomeMaps == {EmptyMap, [id \in {0, 4} |-> <<7>>], [id \in AllIds |-> <<1>>]}

\* The operation named op on the input in and the output argument out
\* (a map, or for encode_delta a buffer).
unsupported(op, want, in, out) ==
    CASE op = "encode_chunks_legacy" -> encode_chunks_legacy(want, out)
      [] op = "encode_chunks"        -> encode_chunks(in, out)
      [] op = "decode_chunks"        -> decode_chunks(want, in, out)
      [] op = "decode_chunks_legacy" -> decode_chunks_legacy(want, in, out)
      [] op = "encode_delta"         -> encode_delta(<<1>>, <<2>>, out)
      [] op = "apply_delta"          -> apply_delta(in, out)

\* Any of the six, on any instance that exists, initialised or not.
SubChunkOrDelta(i) ==
    /\ Live(i)
    /\ \E op \in UnsupportedOps, want \in {{}, DataIds, AllIds},
          in \in SomeMaps :
          \E out \in IF op = "encode_delta" THEN SomeBuffers ELSE SomeMaps :
          LET r == unsupported(op, want, in, out)
          IN  call' = [op |-> op, self |-> i, want |-> want, in |-> in,
                       before |-> out, out |-> r.out, ret |-> r.ret,
                       calls |-> << >>, provider |-> CurrentProvider]
    /\ UNCHANGED <<dl_env, layout, provider, inst, store>>

-----------------------------------------------------------------------------
(* Calls on several threads.  The provider's mutex makes every load and    *)
(* release atomic, and nothing else of encode and decode is under it: a    *)
(* call acquires the provider, and the codec functions are called through  *)
(* the function pointers later, with other threads free to construct,      *)
(* initialise, use and destroy other instances in between.  call holds the *)
(* encode or decode call that is followed: the codec functions it still    *)
(* has to call (todo) and, for each one called, whether the provider was   *)
(* loaded and the pointer non-null at that moment.                         *)

Objects == {"a", "b"}

Running == call.op = "running"

\* The codec functions a call goes through once it has the provider.
CodecFunctions(fn) ==
    IF fn = "encode" THEN <<"split">> ELSE <<"can_restore", "restore">>

FunctionPointer(fn) ==
    IF fn = "split" THEN sizeceph_split_func
    ELSE IF fn = "restore" THEN sizeceph_restore_func
    ELSE sizeceph_can_get_restore_func

\* encode or decode on instance i, with arguments that pass the checks, up
\* to the return of load_sizeceph_actual_library.
Begin(i) ==
    /\ Ready(i)
    /\ library_ref_count < MaxRefCount
    /\ \E fn \in {"encode", "decode"} :
          LET l == load_sizeceph_actual_library(CurrentProvider)
          IN  /\ SetProvider(l.p)
              /\ call' = [op |-> "running", fn |-> fn, self |-> i,
                          acquired |-> l.ret,
                          todo |-> IF l.ret THEN CodecFunctions(fn)
                                   ELSE << >>,
                          calls |-> << >>, ret |-> "none"]
    /\ UNCHANGED <<dl_env, layout, inst, store>>

\* Another thread, while the call runs: it constructs, initialises or
\* destroys another instance, asks the factory for one, or starts an encode
\* or decode of its own on one.
MeanwhileConstruct(j) ==
    /\ inst[j].st = "none"
    /\ inst' = [inst EXCEPT ![j] = [st |-> "new", profile |-> EmptyMap]]
    /\ UNCHANGED <<dl_env, layout, provider, store, call>>

MeanwhileInit(j) ==
    /\ inst[j].st = "new"
    /\ library_ref_count < MaxRefCount
    /\ \E profile \in Profiles :
          LET r == init(profile, CurrentProvider)
          IN  /\ inst' = [inst EXCEPT ![j] =
                    [st |-> IF r.ret = "0" THEN "ready" ELSE "new",
                     profile |-> profile]]
              /\ SetProvider(r.p)
    /\ UNCHANGED <<dl_env, layout, store, call>>

MeanwhileFactory(j) ==
    /\ inst[j].st = "none"
    /\ library_ref_count < MaxRefCount
    /\ \E profile \in Profiles :
          LET r == factory(profile, CurrentProvider)
          IN  /\ inst' = [inst EXCEPT ![j] =
                    IF r.made THEN [st |-> "ready", profile |-> profile]
                    ELSE NoInstance]
              /\ SetProvider(r.p)
    /\ UNCHANGED <<dl_env, layout, store, call>>

MeanwhileDestroy(j) ==
    /\ inst[j].st # "none"
    /\ inst' = [inst EXCEPT ![j] = NoInstance]
    /\ SetProvider(unload_sizeceph_actual_library(CurrentProvider))
    /\ UNCHANGED <<dl_env, layout, store, call>>

MeanwhileAcquire(j) ==
    /\ inst[j].st = "ready"
    /\ library_ref_count < MaxRefCount
    /\ SetProvider(load_sizeceph_actual_library(CurrentProvider).p)
    /\ UNCHANGED <<dl_env, layout, inst, store, call>>

Meanwhile ==
    /\ Running
    /\ \E j \in Objects \ {call.self} :
          \/ MeanwhileConstruct(j)
          \/ MeanwhileInit(j)
          \/ MeanwhileFactory(j)
          \/ MeanwhileDestroy(j)
          \/ MeanwhileAcquire(j)

\* The call reaches its next codec function and calls it through the
\* function pointer.  A call through a null pointer is undefined: the
\* process dies there, or the call goes on.  A can_restore that answers
\* false ends a decode.
Invoke ==
    /\ Running
    /\ call.todo # << >>
    /\ LET fn == Head(call.todo)
           ptr == FunctionPointer(fn)
           made == Append(call.calls,
                          [fn |-> fn, loaded |-> library_loaded,
                           ptr |-> ptr])
       IN  \E outcome \in (IF ptr THEN {"goes on"}
                           ELSE {"goes on", "crash"})
                          \cup (IF fn = "can_restore" THEN {"refused"}
                                ELSE {}) :
              call' = [call EXCEPT
                         !.calls = made,
                         !.todo = IF outcome = "goes on"
                                  THEN Tail(call.todo) ELSE << >>,
                         !.ret = IF outcome = "crash" THEN "crash"
                                 ELSE IF outcome = "refused"
                                 THEN "-ENOTSUP" ELSE call.ret]
    /\ UNCHANGED <<dl_env, layout, provider, inst, store>>

\* The call returns (no path of encode or decode releases the provider).
Complete ==
    /\ Running
    /\ call.todo = << >>
    /\ call' = NoCall
    /\ UNCHANGED <<dl_env, layout, provider, inst, store>>

-----------------------------------------------------------------------------

Init ==
    /\ dl_env \in DlEnvs
    /\ layout \in Layouts
    /\ library_loaded = FALSE
    /\ library_ref_count = 0
    /\ sizeceph_actual_handle = FALSE
    /\ sizeceph_split_func = FALSE
    /\ sizeceph_restore_func = FALSE
    /\ sizeceph_can_get_restore_func = FALSE
    /\ inst = [i \in Instances |-> NoInstance]
    /\ store = NoStore
    /\ call = NoCall

\* The caller takes the result of the call.
Return ==
    /\ ~Idle
    /\ call' = NoCall
    /\ UNCHANGED <<dl_env, layout, provider, inst, store>>

Lifecycle ==
    \E i \in Instances :
        Construct(i) \/ InitInstance(i) \/ Factory(i) \/ Destroy(i)

Next ==
    \/ Lifecycle
    \/ \E i \in Instances : Encode(i)
    \/ \E i \in Instances : DecodeStored(i)
    \/ Return

Spec == Init /\ [][Next]_vars

\* decode and decode_concat on chunks of any origin.
NextDecode ==
    \/ Lifecycle
    \/ \E i \in Instances : DecodeForeign(i)
    \/ \E i \in Instances : DecodeAnySet(i)
    \/ \E i \in Instances : DecodeDeclared(i)
    \/ \E i \in Instances : DecodeConcat(i)
    \/ Return

SpecDecode == Init /\ [][NextDecode]_vars

\* The alignment calculator, the shard selector and the operations that are
\* not supported.
NextPure ==
    \/ Lifecycle
    \/ \E i \in Instances : GetChunkSize(i)
    \/ \E i \in Instances : MinimumToDecode(i)
    \/ \E i \in Instances : MinimumToDecodeWithCost(i)
    \/ \E i \in Instances : SubChunkOrDelta(i)
    \/ Return

SpecPure == Init /\ [][NextPure]_vars

\* Two instances, and calls that other threads interleave with.
InitThreads ==
    /\ dl_env \in DlEnvs
    /\ layout \in Layouts
    /\ library_loaded = FALSE
    /\ library_ref_count = 0
    /\ sizeceph_actual_handle = FALSE
    /\ sizeceph_split_func = FALSE
    /\ sizeceph_restore_func = FALSE
    /\ sizeceph_can_get_restore_func = FALSE
    /\ inst = [i \in Objects |-> NoInstance]
    /\ store = NoStore
    /\ call = NoCall

NextThreads ==
    \/ \E i \in Objects : Construct(i)
    \/ \E i \in Objects : InitInstance(i)
    \/ \E i \in Objects : Factory(i)
    \/ \E i \in Objects : Destroy(i)
    \/ \E i \in Objects : Begin(i)
    \/ Meanwhile
    \/ Invoke
    \/ Complete
    \/ (~Running /\ Return)

SpecThreads == InitThreads /\ [][NextThreads]_vars

-----------------------------------------------------------------------------
(* The properties checked.                                                 *)

\* The chunk size the specification defines for a stripe of w bytes: the
\* smallest c with K * c >= w and K * c a multiple of K * base_alignment.
chunk_size_for(w) ==
    Min({c \in 0..(w + SIZECEPH_ACTUAL_K * SIZECEPH_ACTUAL_ALIGNMENT) :
            /\ SIZECEPH_ACTUAL_K * c >= w
            /\ (SIZECEPH_ACTUAL_K * c)
                 % (SIZECEPH_ACTUAL_K * SIZECEPH_ACTUAL_ALIGNMENT) = 0})

IsEncode == call.op = "encode"

IsDecode == call.op = "decode"

IsConcat == call.op = "decode_concat"

\* The decode call was turned back by the gate: InsufficientShards, and the
\* codec was not asked anything.
GateRejected == call.ret = "-EIO" /\ call.calls = << >>

\* The entries of the result map the decode call wrote.
Written ==
    {id \in DOMAIN call.decoded :
        id \notin DOMAIN call.before \/ call.decoded[id] # call.before[id]}

\* The bytes [off, off + len) of a buffer.
Slice(buf, off, len) == SubSeq(buf, off + 1, off + len)

\* The j-th identifier of a set, counted from 0 in ascending order.
Nth(S, j) == CHOOSE x \in S : Cardinality({y \in S : y < x}) = j

\* C1: a decode call whose chunk map has fewer than 6 keys fails with
\* InsufficientShards (-EIO) and calls neither can_restore nor restore; a
\* decode call whose chunk map has exactly 6 keys, all in [0,9), is not
\* rejected by the gate.
C1_GateCountsShards ==
    IsDecode =>
        /\ Cardinality(DOMAIN call.chunks) < SIZECEPH_ACTUAL_MIN_OSDS
              => GateRejected
        /\ (/\ Cardinality(DOMAIN call.chunks) = SIZECEPH_ACTUAL_MIN_OSDS
            /\ DOMAIN call.chunks \subseteq AllIds)
              => ~GateRejected

\* Five chunks, the four data chunks among them, were turned back.
C1_Witness ==
    /\ IsDecode
    /\ DOMAIN call.chunks = DataIds \cup {4}
    /\ call.want = DataIds
    /\ GateRejected

\* C2: a stripe of any length that is a multiple of 4 (0 and the lengths
\* that are no multiple of 16 included), encoded for the full set and then
\* decoded for {0,1,2,3} from the four data chunks and any two coding
\* chunks with a codec that works, comes back: decode returns 0 and the
\* chunks 0..3 in order are the stripe followed by zeros up to
\* K * chunk_size_for(length) bytes.
C2_RoundTrip ==
    (/\ IsDecode
     /\ store # NoStore
     /\ call.codec = "works"
     /\ call.want = DataIds
     /\ DataIds \subseteq DOMAIN call.chunks
     /\ Cardinality(DOMAIN call.chunks) = SIZECEPH_ACTUAL_MIN_OSDS)
        => /\ call.ret = "0"
           /\ DataIds \subseteq DOMAIN call.decoded
           /\ call.decoded[0] \o call.decoded[1] \o call.decoded[2]
                \o call.decoded[3]
              = store.stripe
                \o Zeros(SIZECEPH_ACTUAL_K * chunk_size_for(Len(store.stripe))
                         - Len(store.stripe))

C4_SixSmallest ==
    call.op \in {"minimum_to_decode", "minimum_to_decode_with_cost"} =>
        IF Cardinality(call.available) < SIZECEPH_ACTUAL_MIN_OSDS
        THEN call.ret = "-EIO"
        ELSE /\ call.ret = "0"
             /\ call.minimum_set =
                   {x \in call.available :
                       Cardinality({y \in call.available : y < x})
                          < SIZECEPH_ACTUAL_MIN_OSDS}

\* Asked for shard 0 with shards 0..6 available and a read set that held
\* 7 and 8, the selector answered {0,..,5}.
C4_Witness ==
    /\ call.op = "minimum_to_decode"
    /\ call.want = {0}
    /\ call.available = 0..6
    /\ call.before = {7, 8}
    /\ call.ret = "0"
    /\ call.minimum_set = 0..5

\* C5: for every stripe width w of 32 bits, the chunk size c that
\* get_chunk_size returns has K * c >= w, K * c a multiple of 16, no
\* smaller chunk size has both, c = 0 for w = 0, and the call changes
\* nothing.  (w is held as its bit pattern; c is below 2^30, so that K * c
\* is exact.)
C5_ChunkSizeCovers ==
    call.op = "get_chunk_size" =>
        /\ call.ret >= 0
        /\ call.ret % SIZECEPH_ACTUAL_ALIGNMENT = 0
        /\ ~U32Less(U32Mul(call.ret, SIZECEPH_ACTUAL_K), call.stripe_width)
        /\ call.ret > 0 =>
              U32Less(U32Mul(call.ret - SIZECEPH_ACTUAL_ALIGNMENT,
                             SIZECEPH_ACTUAL_K),
                      call.stripe_width)
        /\ call.stripe_width = 0 => call.ret = 0
        /\ call.provider = CurrentProvider

\* C9: in a decode call that returns 0 with an effective chunk size c > 0,
\* a multiple of 4 or not, the recovered buffer has K * c bytes and the
\* chunk returned for the data identifier i is its c bytes from offset
\* i * c on.
C9_SlicesPartitionBuffer ==
    (IsDecode /\ call.ret = "0" /\ call.size > 0)
        => /\ Len(call.restored) = SIZECEPH_ACTUAL_K * call.size
           /\ \A id \in call.want \cap DataIds :
                 /\ id \in DOMAIN call.decoded
                 /\ call.decoded[id]
                      = Slice(call.restored, id * call.size, call.size)

\* C10: a decode_concat call whose decode returns 0 returns 0 with, for
\* the requested identifiers in ascending order, one block of chunk-size
\* bytes each (the chunk size being the length of the first chunk given):
\* the chunk decode supplied, or zeros; a call whose decode fails returns
\* what decode returned.
C10_ConcatBlocks ==
    (IsConcat /\ call.has_out) =>
        LET c == first_chunk_length(call.chunks)
            n == Cardinality(call.want)
        IN  /\ call.ret = decode(call.want, call.chunks, EmptyMap, c,
                                 CurrentProvider, call.codec, "crash").ret
            /\ call.ret = "0" =>
                  /\ Len(call.out) = n * c
                  /\ \A j \in 0..(n - 1) :
                        Slice(call.out, j * c, c)
                          = IF Nth(call.want, j) \in DOMAIN call.decoded
                            THEN call.decoded[Nth(call.want, j)]
                            ELSE Zeros(c)

\* C6: an encode whose requested set is not the full set {0..8} (a strict
\* subset, or a set with an identifier outside [0,9)) fails with -EINVAL
\* for every stripe, the empty one included, and does not call split.
C6_EncodeNeedsFullSet ==
    (IsEncode /\ call.want # AllIds)
        => (call.ret = "-EINVAL" /\ call.calls = << >>)

\* An empty stripe asked for nine shards one of which is no shard was
\* rejected.
C6_Witness ==
    /\ IsEncode
    /\ call.want = (AllIds \ {8}) \cup {SIZECEPH_ACTUAL_N}
    /\ call.in = << >>
    /\ call.ret = "-EINVAL"

\* C7: an encode of a non-empty stripe whose length is not a multiple of 4
\* fails with -EINVAL, leaves the output map as it was and does not call
\* split; an encode of a non-empty stripe whose length is a multiple of 4,
\* for the full set, returns 0 with exactly the nine chunks in the map,
\* each chunk_size_for(length) bytes long.
C7_EncodeAlignment ==
    /\ (IsEncode /\ Len(call.in) > 0 /\ Len(call.in) % 4 # 0)
          => /\ call.ret = "-EINVAL"
             /\ call.encoded = call.before
             /\ call.calls = << >>
    /\ (IsEncode /\ Len(call.in) > 0 /\ Len(call.in) % 4 = 0
          /\ call.want = AllIds)
          => /\ call.ret = "0"
             /\ DOMAIN call.encoded = AllIds
             /\ \A id \in AllIds :
                   Len(call.encoded[id]) = chunk_size_for(Len(call.in))

\* A stripe of 8 bytes was encoded into nine chunks of 4 bytes.
C7_Witness ==
    /\ IsEncode
    /\ Len(call.in) = 8
    /\ call.want = AllIds
    /\ call.ret = "0"
    /\ \A id \in AllIds : Len(call.encoded[id]) = 4

\* C8: an encode of the empty stripe for the full set returns 0, maps every
\* requested shard to an empty chunk and does not call split.
C8_EncodeEmptyStripe ==
    (IsEncode /\ call.in = << >> /\ call.want = AllIds)
        => /\ call.ret = "0"
           /\ \A id \in call.want :
                 id \in DOMAIN call.encoded /\ call.encoded[id] = << >>
           /\ call.calls = << >>

\* The empty stripe was encoded for the full set.
C8_Witness ==
    /\ IsEncode
    /\ call.in = << >>
    /\ call.want = AllIds
    /\ call.ret = "0"
    /\ DOMAIN call.encoded = AllIds

\* The codec calls of the decode call ended with can_restore answering
\* false.
CanRestoreRefused ==
    Len(call.calls) = 1 /\ call.calls[1].fn = "can_restore"

\* The codec calls of the decode call ended with restore returning a
\* nonzero status.
RestoreFailed ==
    /\ Len(call.calls) = 2
    /\ call.calls[2].fn = "restore"
    /\ call.codec = "fails"

\* C11: the value a decode call returns tells a gate rejection from a codec
\* failure: fewer than 6 chunks give InsufficientShards (-EIO), and neither
\* a call in which can_restore answered false nor a call in which restore
\* returned a nonzero status returns that value.
C11_ErrorTellsCause ==
    IsDecode =>
        /\ Cardinality(DOMAIN call.chunks) < SIZECEPH_ACTUAL_MIN_OSDS
              => call.ret = "-EIO"
        /\ CanRestoreRefused => call.ret \notin {"0", "-EIO"}
        /\ RestoreFailed => call.ret \notin {"0", "-EIO"}

\* C12: each sub-chunk operation (the two encode_chunks, the two
\* decode_chunks) and each delta operation (encode_delta, apply_delta), on
\* any input and in any state, reports Unsupported (-ENOTSUP) to its caller,
\* calls nothing of the codec library, leaves the provider alone and leaves
\* its output argument as it was.
C12_AlwaysUnsupported ==
    call.op \in UnsupportedOps =>
        /\ call.ret = "-ENOTSUP"
        /\ call.calls = << >>
        /\ call.out = call.before
        /\ call.provider = CurrentProvider

\* A profile init accepts: k and m are there, k is 4 and m is 5.
ProfileFits(profile) ==
    /\ "k" \in DOMAIN profile /\ profile["k"] = "4"
    /\ "m" \in DOMAIN profile /\ profile["m"] = "5"

\* C13: init (called by its owner, or by the plugin factory) with a profile
\* that lacks k or m, or whose k is not 4 or m is not 5, fails with
\* InvalidConfiguration (-EINVAL) and leaves the provider's loaded state and
\* reference count as they were; with k = 4 and m = 5 it returns 0 when the
\* provider is loaded already or can be loaded, and ProviderUnavailable
\* (-ENOENT) when not.
C13_InitChecksProfile ==
    call.op \in {"init", "factory"} =>
        IF ProfileFits(call.profile)
        THEN call.ret = IF call.provider.loaded \/ dl_env = "ok"
                        THEN "0" ELSE "-ENOENT"
        ELSE /\ call.ret = "-EINVAL"
             /\ library_loaded = call.provider.loaded
             /\ library_ref_count = call.provider.count

\* What can_restore answers in the decode call: true when the library does
\* not refuse and the shards present determine the data.
CanRestoreAnswer ==
    call.codec # "refuses" /\ CanRebuild(DOMAIN call.chunks \cap AllIds)

\* The positions in the call's sequence of codec calls of the calls to fn.
CallsTo(fn) == {j \in 1..Len(call.calls) : call.calls[j].fn = fn}

\* C14: a decode call calls can_restore at most once and restore at most
\* once; restore is called only after can_restore, and only if can_restore
\* answered true; when can_restore answers false the call fails with
\* can_restore as its only codec call, and when restore returns nonzero the
\* call fails with restore as its last codec call.
C14_DecodeLinear ==
    IsDecode =>
        /\ Cardinality(CallsTo("can_restore")) <= 1
        /\ Cardinality(CallsTo("restore")) <= 1
        /\ CallsTo("restore") # {}
              => /\ CallsTo("can_restore") = {1}
                 /\ CallsTo("restore") = {2}
                 /\ CanRestoreAnswer
        /\ (CallsTo("can_restore") # {} /\ ~CanRestoreAnswer)
              => /\ Len(call.calls) = 1
                 /\ call.ret # "0"
        /\ (CallsTo("restore") # {} /\ call.codec = "fails")
              => /\ Len(call.calls) = 2
                 /\ call.ret # "0"

\* can_restore answered false to six chunks of a call asked for the data
\* chunks: the call failed and restore was not called.
C14_Witness ==
    /\ IsDecode
    /\ call.want = DataIds
    /\ Cardinality(DOMAIN call.chunks) = SIZECEPH_ACTUAL_MIN_OSDS
    /\ call.codec = "refuses"
    /\ CanRestoreRefused
    /\ call.ret = "-ENOTSUP"

\* C15: in a decode call that passed the gate, the effective chunk size is
\* the declared chunk size when that is positive, and the length of a chunk
\* present for every declared size of 0 or less; a call whose effective
\* chunk size is 0 fails with InvalidArgument (-EINVAL) and calls nothing of
\* the codec; and the length handed to restore is the effective chunk size
\* times K, a product that fits 32 bits.
C15_ChunkSizeResolved ==
    (IsDecode
       /\ Cardinality(DOMAIN call.chunks) >= SIZECEPH_ACTUAL_MIN_OSDS) =>
        /\ call.chunk_size > 0 => call.size = call.chunk_size
        /\ call.chunk_size <= 0
              => \E id \in DOMAIN call.chunks :
                    call.size = Len(call.chunks[id])
        /\ call.size = 0
              => (call.ret = "-EINVAL" /\ call.calls = << >>)
        /\ \A j \in CallsTo("restore") :
              /\ call.size > 0
              /\ call.size < Two30
              /\ call.calls[j].len = call.size * SIZECEPH_ACTUAL_K

\* C16: the provider follows a reference-count protocol.  In every state the
\* count is not negative, the provider is loaded exactly when the count is
\* at least 1, and each of the three function pointers is non-null exactly
\* when the provider is loaded.  In every step, a provider that becomes
\* loaded has count 1, a provider that stays loaded has its count changed by
\* at most one, and a provider becomes unloaded only in a step that takes
\* the count from 1 to 0.
ProviderConsistent ==
    /\ library_ref_count >= 0
    /\ library_loaded <=> library_ref_count >= 1
    /\ sizeceph_split_func <=> library_loaded
    /\ sizeceph_restore_func <=> library_loaded
    /\ sizeceph_can_get_restore_func <=> library_loaded

ProviderStep ==
    /\ (~library_loaded /\ library_loaded') => library_ref_count' = 1
    /\ (library_loaded /\ library_loaded')
          => library_ref_count' - library_ref_count \in {-1, 0, 1}
    /\ (library_loaded /\ ~library_loaded')
          => (library_ref_count = 1 /\ library_ref_count' = 0)

C16_RefCountProtocol == []ProviderConsistent /\ [][ProviderStep]_vars

\* C18: whenever encode calls split, the length it passes is the stripe
\* length padded to a multiple of 16 (K times the chunk size of the stripe),
\* so that the length divided by K is the length of every chunk encode
\* allocated.
C18_SplitLengthPadded ==
    IsEncode =>
        \A j \in 1..Len(call.calls) :
            call.calls[j].fn = "split" =>
                /\ call.calls[j].len
                     = SIZECEPH_ACTUAL_K * chunk_size_for(Len(call.in))
                /\ \A id \in call.want :
                      call.calls[j].len \div SIZECEPH_ACTUAL_K
                          = Len(call.encoded[id])

\* C19: acquisitions and releases of the provider are balanced: whenever
\* every instance has been destroyed (none exists), whatever was called on
\* the instances before, the reference count is 0 and the provider is
\* unloaded.
C19_ReferencesBalanced ==
    (\A i \in DOMAIN inst : inst[i].st = "none") =>
        (library_ref_count = 0 /\ ~library_loaded)

\* C17: in every interleaving of encode, decode, init and destruction on
\* different threads, a call that acquired the provider finds it loaded
\* from then until it returns, and every split, can_restore and restore it
\* calls is called while the provider is loaded, through a non-null pointer.
C17_LoadedWhileInUse ==
    (Running /\ call.acquired) =>
        /\ library_loaded
        /\ \A j \in 1..Len(call.calls) :
              call.calls[j].loaded /\ call.calls[j].ptr

\* C20: the provider is loaded in every state in which an instance whose
\* init succeeded is alive, and a step that destroys an instance that never
\* acquired the provider (its init did not succeed) leaves the reference
\* count and the loaded flag as they were.
AliveImpliesLoaded ==
    (\E i \in DOMAIN inst : inst[i].st = "ready") => library_loaded

DestroysUnacquired ==
    \E i \in DOMAIN inst : inst[i].st = "new" /\ inst'[i].st = "none"

C20_NoEarlyUnload ==
    /\ []AliveImpliesLoaded
    /\ [][DestroysUnacquired
            => UNCHANGED <<library_ref_count, library_loaded>>]_vars

\* C21: a decode call that returns an error leaves the caller's result map
\* as it was at the call: whatever the failure (gate rejection, provider
\* not loadable, chunk size unresolved, can_restore false, restore failed,
\* or a requested identifier outside [0, N)), no entry has been added or
\* changed.
ErrorCodes == {"-EIO", "-ENOENT", "-EINVAL", "-ENOTSUP"}

C21_FailedDecodeLeavesMap ==
    (IsDecode /\ call.ret \in ErrorCodes) => call.decoded = call.before

====
